---- MODULE Spec2Model ----
(***************************************************************************)
(* A model of src/bot.py: the three handlers of the join-request           *)
(* gatekeeper bot (start, handle_join_request, handle_button_press), the   *)
(* helper send_verification_message, and the messaging gateway they call.  *)
(*                                                                         *)
(* Strings that the program formats or parses (the callback_data of the    *)
(* buttons) are sequences of one-character strings, so that the f-string   *)
(* of send_verification_message and the split/int of handle_button_press   *)
(* are computed, not assumed.                                              *)
(***************************************************************************)
EXTENDS Integers, Sequences, FiniteSets, TLC

\* ------------------------------------------------------------------ bounds

\* Updates the gateway delivers in one behaviour.
MaxEvents == 3
\* Updates waiting in the dispatcher's queue.
MaxQueue == 1

\* ------------------------------------------------------- program constants

\* int(TARGET_CHAT_ID), the configured chat of the /start flow (bot.py:13, 62).
TARGET_CHAT_ID == -10
\* create_chat_invite_link(member_limit=1) (bot.py:112).
MemberLimit == 1
\* datetime.timedelta(hours=1), in seconds (bot.py:110).
ExpireSeconds == 3600
\* Application.builder().token(TOKEN).build(): concurrent_updates is left at
\* its default, so the dispatcher runs one handler at a time (bot.py:148).
ConcurrentUpdates == 1

Users == {7, 12}
\* The chats whose join requests the bot receives: the configured chat.
Chats == {TARGET_CHAT_ID}
\* Values datetime.datetime.now() returns, in seconds.
Clock == {0, 1800}
\* The handler executions that can be in progress: those of the dispatcher,
\* and one more that only the concurrent specification starts.
Tasks == 1 .. (ConcurrentUpdates + 1)
\* The message texts of BadRequest errors the gateway answers with, lowered as
\* e.message.lower() lowers them. The first two are the ones line 106 looks for.
BadRequestMessages ==
    {"user is already a member", "request not found", "hide_requester_missing",
     "not enough rights"}

\* --------------------------------------------------------------- strings

Digits == <<"0", "1", "2", "3", "4", "5", "6", "7", "8", "9">>
DigitChars == {Digits[i] : i \in 1 .. 10}

APPROVE == <<"a", "p", "p", "r", "o", "v", "e">>
DECLINE == <<"d", "e", "c", "l", "i", "n", "e">>
MAYBE == <<"m", "a", "y", "b", "e">>
Actions == {APPROVE, DECLINE}

\* str(n) for n >= 0.
RECURSIVE NatToStr(_)
NatToStr(n) ==
    IF n < 10 THEN <<Digits[n + 1]>>
    ELSE NatToStr(n \div 10) \o <<Digits[(n % 10) + 1]>>

\* IntToStr without the sign of a negative number.
IntToStrUnsigned(n) == NatToStr(IF n < 0 THEN 0 - n ELSE n)

\* The "{n}" of an f-string for an int n.
IntToStr(n) == IF n < 0 THEN <<"-">> \o NatToStr(0 - n) ELSE NatToStr(n)

\* f"{action}_{user_id}_{chat_id}" (bot.py:32-33).
EncodeToken(action, user_id, chat_id) ==
    action \o <<"_">> \o IntToStr(user_id) \o <<"_">> \o IntToStr(chat_id)

\* Index of the first sep in s, 0 when there is none.
FirstIndex(s, sep) ==
    IF \E i \in 1 .. Len(s) : s[i] = sep
    THEN CHOOSE i \in 1 .. Len(s) : s[i] = sep /\ \A j \in 1 .. (i - 1) : s[j] # sep
    ELSE 0

\* str.split(sep): the parts between the separators, empty parts kept.
RECURSIVE Split(_, _)
Split(s, sep) ==
    LET i == FirstIndex(s, sep)
    IN IF i = 0 THEN <<s>>
       ELSE <<SubSeq(s, 1, i - 1)>> \o Split(SubSeq(s, i + 1, Len(s)), sep)

\* s without its leading and trailing blanks, as int() reads it.
RECURSIVE Strip(_)
Strip(s) ==
    IF Len(s) > 0 /\ s[1] = " " THEN Strip(Tail(s))
    ELSE IF Len(s) > 0 /\ s[Len(s)] = " " THEN Strip(SubSeq(s, 1, Len(s) - 1))
    ELSE s

\* The digits of a literal, after its optional sign.
Unsigned(s) ==
    IF Len(s) > 0 /\ s[1] \in {"-", "+"} THEN Tail(s) ELSE s

\* Whether int(s) returns (otherwise it raises ValueError).
IsIntLiteral(s) ==
    LET d == Unsigned(Strip(s))
    IN Len(d) > 0 /\ \A i \in 1 .. Len(d) : d[i] \in DigitChars

DigitVal(c) == (CHOOSE i \in 1 .. 10 : Digits[i] = c) - 1

RECURSIVE ParseNat(_)
ParseNat(d) ==
    IF Len(d) = 0 THEN 0
    ELSE 10 * ParseNat(SubSeq(d, 1, Len(d) - 1)) + DigitVal(d[Len(d)])

\* int(s) for a literal s.
ParseInt(s) ==
    LET b == Strip(s)
    IN IF Len(b) > 0 /\ b[1] = "-" THEN 0 - ParseNat(Unsigned(b))
       ELSE ParseNat(Unsigned(b))

\* What line 92 does with data_parts: "IndexError" when data_parts[1] or
\* data_parts[2] does not exist, "ValueError" when int() rejects a part,
\* "ok" when the three values are assigned.
ParseOutcome(data) ==
    LET data_parts == Split(data, "_")
    IN IF Len(data_parts) < 2 THEN "IndexError"
       ELSE IF ~IsIntLiteral(data_parts[2]) THEN "ValueError"
       ELSE IF Len(data_parts) < 3 THEN "IndexError"
       ELSE IF ~IsIntLiteral(data_parts[3]) THEN "ValueError"
       ELSE "ok"

\* action, user_id, chat_id = data_parts[0], int(data_parts[1]), int(data_parts[2])
DecodeToken(data) ==
    LET data_parts == Split(data, "_")
    IN <<data_parts[1], ParseInt(data_parts[2]), ParseInt(data_parts[3])>>

\* ------------------------------------------------------------------ state

VARIABLES
    pending,    \* gateway: the (user, chat) pairs with a pending join request
    members,    \* gateway: the (user, chat) pairs whose request was approved
    filed,      \* history: the (user, chat) pairs that ever filed a join request
    msgs,       \* gateway: the prompt messages sent, in order: the recipient,
                \* the text and the keyboard shown (chat: the chat the prompt
                \* was sent for, kept as history)
    queue,      \* dispatcher: updates received and not yet handled
    tasks,      \* dispatcher: the handler execution of each worker
    nevents     \* updates delivered so far

vars == <<pending, members, filed, msgs, queue, tasks, nevents>>

\* The button payloads a client may send back: every well-formed token, and
\* payloads of another shape (a callback query's data is chosen by the client).
Malformed ==
    {APPROVE,
     APPROVE \o <<"_", "7">>,
     APPROVE \o <<"_", "x", "_", "4">>,
     APPROVE \o <<"_", "7", "_", "-">>,
     DECLINE \o <<"_", "7", "_">>,
     APPROVE \o <<"_", "7", "_", "4", "_", "1">>,
     MAYBE \o <<"_", "7", "_", "4">>}

Payloads ==
    {EncodeToken(a, u, c) : a \in Actions, u \in Users, c \in Chats} \cup Malformed

NoCalls == <<>>

NoUpdate ==
    [type |-> "none", user |-> 0, chat |-> 0, has_user |-> FALSE,
     is_bot |-> FALSE, chat_type |-> "none", msg |-> 0, data |-> <<>>]

\* A handler execution: the update it handles, its position (pc), its locals
\* (user, chat: the arguments of send_verification_message; msg, data: the
\* callback query's message and payload; parsed: action, user_id, chat_id;
\* e: the BadRequest caught at line 104; now: the value read at line 110),
\* the exception that escaped it (raised), and as history the gateway calls
\* it made (calls) and whether the request was pending when it called approve.
IdleTask ==
    [kind |-> "idle", pc |-> "idle", update |-> NoUpdate, user |-> 0,
     chat |-> 0, msg |-> 0, data |-> <<>>, parsed |-> <<>>, e |-> "none",
     now |-> 0, calls |-> NoCalls, raised |-> "none", had_pending |-> FALSE]

Call(op, args, res) == [op |-> op, args |-> args, res |-> res]

\* A worker the dispatcher never starts.
OffTask == [IdleTask EXCEPT !.pc = "off"]

\* A worker is free when its handler has returned or raised.
Free(t) == tasks[t].pc \in {"idle", "done"}

Init ==
    /\ pending = {}
    /\ members = {}
    /\ filed = {}
    /\ msgs = <<>>
    /\ queue = <<>>
    /\ tasks = [t \in Tasks |-> IF t <= ConcurrentUpdates THEN IdleTask ELSE OffTask]
    /\ nevents = 0

\* ------------------------------------------------- updates from the gateway

CanDeliver == nevents < MaxEvents /\ Len(queue) < MaxQueue

\* A user asks to join a chat: the gateway records the pending request and
\* delivers a chat_join_request update.
JoinRequestUpdate ==
    \E u \in Users, c \in Chats :
        /\ CanDeliver
        /\ <<u, c>> \notin pending \cup members
        /\ pending' = pending \cup {<<u, c>>}
        /\ filed' = filed \cup {<<u, c>>}
        /\ queue' = Append(queue, [type |-> "join", user |-> u, chat |-> c,
                                   has_user |-> TRUE, is_bot |-> FALSE,
                                   chat_type |-> "supergroup", msg |-> 0,
                                   data |-> <<>>])
        /\ nevents' = nevents + 1
        /\ UNCHANGED <<members, msgs, tasks>>

\* An account flagged as a bot.
BotId == 99

\* The /start command updates, as <<has_user, user, is_bot, chat_type>>:
\* effective_user is missing in a channel post (has_user = FALSE), and
\* chat_type "none" stands for a missing effective_chat.
StartShapes ==
    {<<TRUE, u, FALSE, "private">> : u \in Users}
        \cup {<<TRUE, 7, FALSE, "supergroup">>, <<TRUE, BotId, TRUE, "private">>,
              <<FALSE, 0, FALSE, "channel">>, <<TRUE, 7, FALSE, "none">>}

\* Somebody sends /start.
StartUpdate ==
    \E s \in StartShapes :
        /\ CanDeliver
        /\ queue' = Append(queue, [type |-> "start", user |-> s[2], chat |-> 0,
                                   has_user |-> s[1], is_bot |-> s[3],
                                   chat_type |-> s[4], msg |-> 0,
                                   data |-> <<>>])
        /\ nevents' = nevents + 1
        /\ UNCHANGED <<pending, members, filed, msgs, tasks>>

\* The recipient of a prompt that still shows its buttons presses one; the
\* client sends a callback query for that message with a payload of its choice.
ButtonPressUpdate ==
    \E m \in 1 .. Len(msgs) :
      \E d \in Payloads \cup {msgs[m].keyboard[i] : i \in 1 .. Len(msgs[m].keyboard)} :
        /\ CanDeliver
        /\ msgs[m].keyboard # <<>>
        /\ queue' = Append(queue, [type |-> "press", user |-> msgs[m].to,
                                   chat |-> 0, has_user |-> TRUE,
                                   is_bot |-> FALSE, chat_type |-> "private",
                                   msg |-> m, data |-> d])
        /\ nevents' = nevents + 1
        /\ UNCHANGED <<pending, members, filed, msgs, tasks>>


\* ------------------------------------------------------ the gateway's calls

\* The outcomes of a gateway call are "ok", the message of a BadRequest, or
\* "Forbidden" / "Error" (any other exception: network, timeout, rate limit).
IsBadRequest(res) == res \in BadRequestMessages \cup {"message is not modified"}

\* approve_chat_join_request(chat_id, user_id): it succeeds only on a pending
\* request; without one the gateway reports that in one of its wordings.
ApproveOutcomes(u, c) ==
    IF <<u, c>> \in pending THEN {"ok", "not enough rights", "Error"}
    ELSE IF <<u, c>> \in members
    THEN {"user is already a member", "not enough rights", "Error"}
    ELSE {"request not found", "hide_requester_missing", "not enough rights",
          "Error"}

\* decline_chat_join_request(chat_id, user_id).
DeclineOutcomes(u, c) ==
    IF <<u, c>> \in pending THEN {"ok", "not enough rights", "Error"}
    ELSE {"request not found", "hide_requester_missing", "Error"}

SendOutcomes == {"ok", "Forbidden", "Error"}
AnswerOutcomes == {"ok", "Error"}
LinkOutcomes == {"ok", "not enough rights", "Error"}
EditOutcomes == {"ok", "message is not modified", "Error"}

\* ------------------------------------------------ send_verification_message

\* The callback_data of the two buttons, Yes then No (bot.py:30-35).
Keyboard(user_id, chat_id) ==
    <<EncodeToken(APPROVE, user_id, chat_id), EncodeToken(DECLINE, user_id, chat_id)>>

\* AfterForbidden with start approving by default, as handle_join_request does.
AfterForbiddenAlwaysApprove(kind) == "auto_approve"

\* AfterForbidden with handle_join_request only logging, as start does.
AfterForbiddenLogOnly(kind) == "done"

\* Where the caller goes when send_message raises Forbidden: start logs
\* (bot.py:63-64), handle_join_request approves (bot.py:81-83).
AfterForbidden(kind) == IF kind = "join" THEN "auto_approve" ELSE "done"

\* What escapes the caller when send_message raises another exception: start
\* catches it (bot.py:65-66), handle_join_request has no such clause.
SendErrorEscapes(kind) == kind = "join"

\* await context.bot.send_message(chat_id=user_id, ..., reply_markup=...) and
\* the caller's except clauses.
SendVerificationMessage(t) ==
    /\ tasks[t].pc = "send"
    /\ \E res \in SendOutcomes :
        LET T == tasks[t]
            kb == Keyboard(T.user, T.chat)
            log == Append(T.calls, Call("send_message", <<T.user, kb>>, res))
        IN /\ msgs' = IF res = "ok"
                      THEN Append(msgs, [to |-> T.user, chat |-> T.chat,
                                         text |-> "prompt", keyboard |-> kb])
                      ELSE msgs
           /\ tasks' = [tasks EXCEPT ![t] =
                 [T EXCEPT !.calls = log,
                           !.pc = IF res = "Forbidden" THEN AfterForbidden(T.kind)
                                  ELSE "done",
                           !.raised = IF res = "Error" /\ SendErrorEscapes(T.kind)
                                      THEN res ELSE "none"]]
    /\ UNCHANGED <<pending, members, filed, queue, nevents>>

\* ------------------------------------------------------------------- start

\* StartAccepts without the user.is_bot test.
StartAcceptsBots(ev) ==
    ~(~ev.has_user \/ ev.chat_type = "none" \/ ev.chat_type # "private")

\* not (not user or user.is_bot or not chat or chat.type != 'private') (bot.py:57).
StartAccepts(ev) ==
    ~(~ev.has_user \/ ev.is_bot \/ ev.chat_type = "none" \/ ev.chat_type # "private")

\* The dispatcher hands a /start update to start, which runs to its first await.
Start(t) ==
    /\ Free(t)
    /\ queue # <<>>
    /\ Head(queue).type = "start"
    /\ LET ev == Head(queue)
       IN tasks' = [tasks EXCEPT ![t] =
              [IdleTask EXCEPT !.kind = "start", !.update = ev, !.user = ev.user,
                               !.chat = TARGET_CHAT_ID,
                               !.pc = IF StartAccepts(ev) THEN "send" ELSE "done"]]
    /\ queue' = Tail(queue)
    /\ UNCHANGED <<pending, members, filed, msgs, nevents>>

\* ------------------------------------------------------ handle_join_request

\* The dispatcher hands a chat_join_request update to handle_join_request.
HandleJoinRequest(t) ==
    /\ Free(t)
    /\ queue # <<>>
    /\ Head(queue).type = "join"
    /\ LET ev == Head(queue)
       IN tasks' = [tasks EXCEPT ![t] =
              [IdleTask EXCEPT !.kind = "join", !.update = ev, !.user = ev.user,
                               !.chat = ev.chat, !.pc = "send"]]
    /\ queue' = Tail(queue)
    /\ UNCHANGED <<pending, members, filed, msgs, nevents>>

\* await context.bot.approve_chat_join_request(...) of the Forbidden branch
\* (bot.py:83); its exceptions escape the handler.
AutoApprove(t) ==
    /\ tasks[t].pc = "auto_approve"
    /\ \E res \in ApproveOutcomes(tasks[t].user, tasks[t].chat) :
        LET T == tasks[t]
            pair == <<T.user, T.chat>>
        IN /\ pending' = IF res = "ok" THEN pending \ {pair} ELSE pending
           /\ members' = IF res = "ok" THEN members \cup {pair} ELSE members
           /\ tasks' = [tasks EXCEPT ![t] =
                 [T EXCEPT !.calls = Append(T.calls,
                               Call("approve", <<T.chat, T.user>>, res)),
                           !.pc = "done",
                           !.raised = IF res = "ok" THEN "none" ELSE res]]
    /\ UNCHANGED <<filed, msgs, queue, nevents>>


\* ------------------------------------------------------ handle_button_press

\* The dispatcher hands a callback query to handle_button_press (bot.py:88).
HandleButtonPress(t) ==
    /\ Free(t)
    /\ queue # <<>>
    /\ Head(queue).type = "press"
    /\ LET ev == Head(queue)
       IN tasks' = [tasks EXCEPT ![t] =
              [IdleTask EXCEPT !.kind = "press", !.update = ev, !.user = ev.user,
                               !.msg = ev.msg, !.data = ev.data,
                               !.pc = "answer"]]
    /\ queue' = Tail(queue)
    /\ UNCHANGED <<pending, members, filed, msgs, nevents>>

\* AnswerCalls with the acknowledgement awaited twice.
AnswerCallsTwice(res) == <<Call("answer", <<>>, res), Call("answer", <<>>, res)>>

\* AnswerCalls with the await query.answer() left out.
AnswerCallsNone(res) == <<>>

\* The calls line 89 makes: await query.answer().
AnswerCalls(res) == <<Call("answer", <<>>, res)>>

\* The branch lines 94 and 132 select for a decoded action; any other action
\* falls through both and the handler returns.
ActionBranch(action) ==
    IF action = APPROVE THEN "approve"
    ELSE IF action = DECLINE THEN "decline"
    ELSE "done"

\* await query.answer(), then the synchronous lines 91-94/132: split, int, and
\* the choice of the branch. A parse error escapes the handler.
Answer(t) ==
    /\ tasks[t].pc = "answer"
    /\ \E res \in AnswerOutcomes :
        LET T == tasks[t]
            log == T.calls \o AnswerCalls(res)
            parse == ParseOutcome(T.data)
        IN tasks' = [tasks EXCEPT ![t] =
              IF res # "ok"
              THEN [T EXCEPT !.calls = log, !.pc = "done", !.raised = res]
              ELSE IF parse # "ok"
              THEN [T EXCEPT !.calls = log, !.pc = "done", !.raised = parse]
              ELSE [T EXCEPT !.calls = log, !.parsed = DecodeToken(T.data),
                             !.pc = ActionBranch(DecodeToken(T.data)[1])]]
    /\ UNCHANGED <<pending, members, filed, msgs, queue, nevents>>

\* "user is already a member" in e.message.lower() or
\* "request not found" in e.message.lower() (bot.py:106).
IsNoPendingSignal(e) == e \in {"user is already a member", "request not found"}

\* ApproveExcept with the invite-link fallback taken on every BadRequest.
ApproveExceptAnyBadRequest(res) ==
    IF IsBadRequest(res) THEN "create_link" ELSE "edit_unexpected"

\* The except clause a failure inside the try of lines 95-103 lands in:
\* BadRequest with the no-pending wording (106-122), BadRequest otherwise
\* (123-126), any other exception (127-129).
ApproveExcept(res) ==
    IF IsBadRequest(res)
    THEN (IF IsNoPendingSignal(res) THEN "create_link" ELSE "edit_api_error")
    ELSE "edit_unexpected"

\* AfterApprove with the invite link issued after a successful approve as well.
AfterApproveAlwaysLink(res) ==
    IF res = "ok" THEN "create_link" ELSE ApproveExcept(res)

\* Where the handler goes after the approve call returns res (bot.py:97-104).
AfterApprove(res) == IF res = "ok" THEN "edit_welcome" ELSE ApproveExcept(res)

\* await context.bot.approve_chat_join_request(chat_id=chat_id, user_id=user_id).
Approve(t) ==
    /\ tasks[t].pc = "approve"
    /\ \E res \in ApproveOutcomes(tasks[t].parsed[2], tasks[t].parsed[3]) :
        LET T == tasks[t]
            pair == <<T.parsed[2], T.parsed[3]>>
        IN /\ pending' = IF res = "ok" THEN pending \ {pair} ELSE pending
           /\ members' = IF res = "ok" THEN members \cup {pair} ELSE members
           /\ tasks' = [tasks EXCEPT ![t] =
                 [T EXCEPT !.calls = Append(T.calls,
                               Call("approve", <<T.parsed[3], T.parsed[2]>>, res)),
                           !.e = IF IsBadRequest(res) THEN res ELSE "none",
                           !.had_pending = pair \in pending,
                           !.pc = AfterApprove(res)]]
    /\ UNCHANGED <<filed, msgs, queue, nevents>>

\* ExpireDate with timedelta(minutes=1) in place of timedelta(hours=1).
ExpireDateMinute(now) == now + 60

\* expire_date = datetime.datetime.now() + datetime.timedelta(hours=1).
ExpireDate(now) == now + ExpireSeconds

\* The arguments of the create_chat_invite_link call (bot.py:111-113).
LinkArgs(chat_id, now) == <<chat_id, MemberLimit, ExpireDate(now)>>

\* await context.bot.create_chat_invite_link(...); a failure lands in the
\* inner except (bot.py:120).
CreateLink(t) ==
    /\ tasks[t].pc = "create_link"
    /\ \E now \in Clock, res \in LinkOutcomes :
        LET T == tasks[t]
        IN tasks' = [tasks EXCEPT ![t] =
              [T EXCEPT !.now = now,
                        !.calls = Append(T.calls,
                            Call("create_chat_invite_link",
                                 LinkArgs(T.parsed[3], now), res)),
                        !.pc = IF res = "ok" THEN "edit_invite"
                               ELSE "edit_link_error"]]
    /\ UNCHANGED <<pending, members, filed, msgs, queue, nevents>>

\* EditArgs with the keyboard passed again as reply_markup.
EditArgsKeepMarkup(m, text) == <<m, text, TRUE>>

\* The arguments of an edit_message_text call: the message, the text, and
\* whether a reply_markup is passed (no call of the handler passes one).
EditArgs(m, text) == <<m, text, FALSE>>

\* await query.edit_message_text(text=...) at pc `at`: on success the message
\* shows the text and, no markup being passed, loses its buttons; on failure
\* the handler goes to onBadRequest or onError, "raise" meaning that the
\* exception escapes the handler.
EditMessageText(t, at, text, onBadRequest, onError) ==
    /\ tasks[t].pc = at
    /\ \E res \in EditOutcomes :
        LET T == tasks[t]
            next == IF res = "ok" THEN "done"
                    ELSE IF IsBadRequest(res) THEN onBadRequest
                    ELSE onError
        IN /\ msgs' = IF res = "ok"
                      THEN [msgs EXCEPT ![T.msg] =
                               [@ EXCEPT !.text = text,
                                         !.keyboard = IF EditArgs(T.msg, text)[3]
                                                      THEN @ ELSE <<>>]]
                      ELSE msgs
           /\ tasks' = [tasks EXCEPT ![t] =
                 [T EXCEPT !.calls = Append(T.calls,
                               Call("edit_message_text", EditArgs(T.msg, text), res)),
                           !.pc = IF next = "raise" THEN "done" ELSE next,
                           !.raised = IF next = "raise" THEN res ELSE "none"]]
    /\ UNCHANGED <<pending, members, filed, queue, nevents>>

\* bot.py:103, inside the try of line 95.
EditWelcome(t) ==
    EditMessageText(t, "edit_welcome", "welcome",
                    ApproveExcept("message is not modified"), ApproveExcept("Error"))

\* bot.py:119, inside the try of line 108.
EditInvite(t) ==
    EditMessageText(t, "edit_invite", "invite", "edit_link_error", "edit_link_error")

\* bot.py:122, inside the except of line 120.
EditLinkError(t) ==
    EditMessageText(t, "edit_link_error", "link_error", "raise", "raise")

\* bot.py:126.
EditApiError(t) ==
    EditMessageText(t, "edit_api_error", "api_error", "raise", "raise")

\* bot.py:129.
EditUnexpected(t) ==
    EditMessageText(t, "edit_unexpected", "unexpected_error", "raise", "raise")

\* AfterDecline with the approve branch's invite-link fallback on a failure.
AfterDeclineFallback(res) ==
    IF res = "ok" THEN "edit_rejection"
    ELSE IF IsNoPendingSignal(res) THEN "create_link"
    ELSE "edit_decline_error"

\* Where the handler goes after the decline call returns res (bot.py:134-141).
AfterDecline(res) == IF res = "ok" THEN "edit_rejection" ELSE "edit_decline_error"

\* await context.bot.decline_chat_join_request(chat_id=chat_id, user_id=user_id).
Decline(t) ==
    /\ tasks[t].pc = "decline"
    /\ \E res \in DeclineOutcomes(tasks[t].parsed[2], tasks[t].parsed[3]) :
        LET T == tasks[t]
            pair == <<T.parsed[2], T.parsed[3]>>
        IN /\ pending' = IF res = "ok" THEN pending \ {pair} ELSE pending
           /\ tasks' = [tasks EXCEPT ![t] =
                 [T EXCEPT !.calls = Append(T.calls,
                               Call("decline", <<T.parsed[3], T.parsed[2]>>, res)),
                           !.pc = AfterDecline(res)]]
    /\ UNCHANGED <<members, filed, msgs, queue, nevents>>

\* bot.py:140, inside the try of line 133.
EditRejection(t) ==
    EditMessageText(t, "edit_rejection", "rejection",
                    "edit_decline_error", "edit_decline_error")

\* bot.py:143, inside the except of line 141.
EditDeclineError(t) ==
    EditMessageText(t, "edit_decline_error", "decline_error", "raise", "raise")

\* ------------------------------------------------------------ specification

Next ==
    \/ JoinRequestUpdate
    \/ StartUpdate
    \/ ButtonPressUpdate
    \/ \E t \in Tasks :
        \/ Start(t)
        \/ HandleJoinRequest(t)
        \/ HandleButtonPress(t)
        \/ SendVerificationMessage(t)
        \/ AutoApprove(t)
        \/ Answer(t)
        \/ Approve(t)
        \/ CreateLink(t)
        \/ EditWelcome(t)
        \/ EditInvite(t)
        \/ EditLinkError(t)
        \/ EditApiError(t)
        \/ EditUnexpected(t)
        \/ Decline(t)
        \/ EditRejection(t)
        \/ EditDeclineError(t)

Spec == Init /\ [][Next]_vars

\* The ids the token specification draws user.id and chat.id from.
MaxId == 12
IdRange == (0 - MaxId) .. MaxId

\* handle_join_request has been handed a join request of any user id for any
\* chat id and is about to send the prompt; one more update can be delivered.
InitToken ==
    \E u \in IdRange, c \in IdRange :
        LET ev == [type |-> "join", user |-> u, chat |-> c, has_user |-> TRUE,
                   is_bot |-> FALSE, chat_type |-> "supergroup", msg |-> 0,
                   data |-> <<>>]
        IN /\ pending = {<<u, c>>}
           /\ members = {}
           /\ filed = {<<u, c>>}
           /\ msgs = <<>>
           /\ queue = <<>>
           /\ tasks = [t \in Tasks |->
                  IF t <= ConcurrentUpdates
                  THEN [IdleTask EXCEPT !.kind = "join", !.update = ev, !.user = u,
                                        !.chat = c, !.pc = "send"]
                  ELSE OffTask]
           /\ nevents = MaxEvents - 1

\* The prompt is sent, a button of it is pressed, and the payload is decoded.
NextToken ==
    \/ ButtonPressUpdate
    \/ \E t \in Tasks :
        \/ SendVerificationMessage(t)
        \/ HandleButtonPress(t)
        \/ Answer(t)

SpecToken == InitToken /\ [][NextToken]_vars

\* The recipient of a prompt that still shows its buttons presses one of them.
GenuinePressUpdate ==
    \E m \in 1 .. Len(msgs) :
      \E i \in 1 .. Len(msgs[m].keyboard) :
        /\ CanDeliver
        /\ queue' = Append(queue, [type |-> "press", user |-> msgs[m].to,
                                   chat |-> 0, has_user |-> TRUE,
                                   is_bot |-> FALSE, chat_type |-> "private",
                                   msg |-> m, data |-> msgs[m].keyboard[i]])
        /\ nevents' = nevents + 1
        /\ UNCHANGED <<pending, members, filed, msgs, tasks>>

\* One prompt has been sent, by handle_join_request for a pending request or by
\* start, and the application handles updates concurrently: a second handler
\* execution can start while the first is suspended at a gateway call.
InitConcurrent ==
    \E u \in Users, kind \in {"join", "start"} :
        LET c == TARGET_CHAT_ID
            kb == Keyboard(u, c)
            ev == [type |-> kind, user |-> u,
                   chat |-> IF kind = "join" THEN c ELSE 0, has_user |-> TRUE,
                   is_bot |-> FALSE,
                   chat_type |-> IF kind = "join" THEN "supergroup" ELSE "private",
                   msg |-> 0, data |-> <<>>]
            sender == [IdleTask EXCEPT !.kind = kind, !.update = ev, !.user = u,
                                       !.chat = c, !.pc = "done",
                                       !.calls = <<Call("send_message", <<u, kb>>, "ok")>>]
        IN /\ pending = IF kind = "join" THEN {<<u, c>>} ELSE {}
           /\ members = {}
           /\ filed = pending
           /\ msgs = <<[to |-> u, chat |-> c, text |-> "prompt", keyboard |-> kb]>>
           /\ queue = <<>>
           /\ tasks = [t \in Tasks |-> IF t <= ConcurrentUpdates THEN sender ELSE IdleTask]
           /\ nevents = 1

\* The buttons of the prompt are pressed and the presses are handled.
NextConcurrent ==
    \/ GenuinePressUpdate
    \/ \E t \in Tasks :
        \/ HandleButtonPress(t)
        \/ Answer(t)
        \/ Approve(t)
        \/ CreateLink(t)
        \/ EditWelcome(t)
        \/ EditInvite(t)
        \/ EditLinkError(t)
        \/ EditApiError(t)
        \/ EditUnexpected(t)
        \/ Decline(t)
        \/ EditRejection(t)
        \/ EditDeclineError(t)

SpecConcurrent == InitConcurrent /\ [][NextConcurrent]_vars

\* ------------------------------------------------------------------ claims

\* The calls of handler execution t, and the positions of its calls of op.
CallsOf(t) == tasks[t].calls
Made(t, op) == {i \in 1 .. Len(CallsOf(t)) : CallsOf(t)[i].op = op}
Finished(t) == tasks[t].pc = "done"
IsPress(t) == tasks[t].kind = "press"
Decoded(t) == Len(tasks[t].parsed) = 3
Acknowledged(t) ==
    Len(CallsOf(t)) > 0 /\ CallsOf(t)[1].op = "answer" /\ CallsOf(t)[1].res = "ok"
\* The text the prompt of execution t shows.
TextOf(t) == msgs[tasks[t].msg].text
\* The payload is not "<action>_<integer>_<integer>": fewer than three parts, or
\* a part that is no integer.
IsMalformed(data) ==
    LET parts == Split(data, "_")
    IN \/ Len(parts) < 3
       \/ ~IsIntLiteral(parts[2])
       \/ ~IsIntLiteral(parts[3])

\* C1: a button press whose payload decodes to a user_id other than the id of
\* the pressing account makes no approve and no decline call.
C1_MismatchedPressRejected ==
    \A t \in Tasks :
        (/\ IsPress(t)
         /\ ~IsMalformed(tasks[t].data)
         /\ DecodeToken(tasks[t].data)[2] # tasks[t].update.user)
        => Made(t, "approve") = {} /\ Made(t, "decline") = {}

\* C2: when handle_button_press has ended after acknowledging the press, the
\* prompt message no longer shows the unanswered prompt.
C2_PromptAlwaysAnswered ==
    \A t \in Tasks :
        (IsPress(t) /\ Finished(t) /\ Acknowledged(t)) => TextOf(t) # "prompt"

\* C3 as stated: an approve press whose join request is pending when approve
\* is called ends with exactly one approve call, a welcome edit and no
\* invite-link call.
C3_PendingApproveWelcomes ==
    \A t \in Tasks :
        (/\ IsPress(t) /\ Finished(t)
         /\ Made(t, "approve") # {}
         /\ tasks[t].had_pending)
        => /\ Cardinality(Made(t, "approve")) = 1
           /\ Made(t, "create_chat_invite_link") = {}
           /\ \E i \in Made(t, "edit_message_text") :
                  CallsOf(t)[i].args[2] = "welcome"

\* C3, amended: when the approve call succeeds, it is the handler's only
\* approve call, the next call is the edit to the welcome text, no invite-link
\* call is made, and the message shows the welcome text if that edit succeeds.
C3_ApprovedWelcomes ==
    \A t \in Tasks :
        \A i \in Made(t, "approve") :
            (IsPress(t) /\ CallsOf(t)[i].res = "ok")
            => /\ Made(t, "approve") = {i}
               /\ CallsOf(t)[i].args = <<tasks[t].parsed[3], tasks[t].parsed[2]>>
               /\ Made(t, "create_chat_invite_link") = {}
               /\ IF Len(CallsOf(t)) = i THEN tasks[t].pc = "edit_welcome"
                  ELSE /\ CallsOf(t)[i + 1].op = "edit_message_text"
                       /\ CallsOf(t)[i + 1].args[1] = tasks[t].msg
                       /\ CallsOf(t)[i + 1].args[2] = "welcome"
                       /\ (CallsOf(t)[i + 1].res = "ok"
                           => Finished(t) /\ TextOf(t) = "welcome")

C3_Witness ==
    \E t \in Tasks :
        /\ IsPress(t) /\ Finished(t)
        /\ tasks[t].parsed = <<APPROVE, 12, TARGET_CHAT_ID>>
        /\ Len(CallsOf(t)) = 3
        /\ CallsOf(t)[2] = Call("approve", <<TARGET_CHAT_ID, 12>>, "ok")
        /\ CallsOf(t)[3].res = "ok"
        /\ TextOf(t) = "welcome"

\* C4 as stated: an approve press whose join request is not pending when
\* approve is called ends with one failed approve call followed by one
\* invite-link call with member_limit 1 and expiry now + 1 hour.
C4_NoPendingApproveLinks ==
    \A t \in Tasks :
        (/\ IsPress(t) /\ Finished(t)
         /\ Made(t, "approve") # {}
         /\ ~tasks[t].had_pending)
        => /\ Cardinality(Made(t, "approve")) = 1
           /\ Cardinality(Made(t, "create_chat_invite_link")) = 1
           /\ \A i \in Made(t, "approve") : CallsOf(t)[i].res # "ok"

\* C4, amended: when the approve call fails with a BadRequest whose lowered
\* message contains "user is already a member" or "request not found", it is
\* the handler's only approve call and the next call, the only invite-link
\* call, is for chat_id with member_limit 1 and expire_date = now + 1 hour.
C4_NoPendingSignalLinks ==
    \A t \in Tasks :
        \A i \in Made(t, "approve") :
            (/\ IsPress(t)
             /\ CallsOf(t)[i].res \in {"user is already a member", "request not found"})
            => /\ Made(t, "approve") = {i}
               /\ IF Len(CallsOf(t)) = i THEN tasks[t].pc = "create_link"
                  ELSE /\ Made(t, "create_chat_invite_link") = {i + 1}
                       /\ CallsOf(t)[i + 1].args =
                              <<tasks[t].parsed[3], 1, tasks[t].now + 3600>>

C4_Witness ==
    \E t \in Tasks :
        /\ IsPress(t) /\ Finished(t)
        /\ Len(CallsOf(t)) = 4
        /\ CallsOf(t)[2] = Call("approve", <<TARGET_CHAT_ID, 7>>, "request not found")
        /\ CallsOf(t)[3] =
               Call("create_chat_invite_link", <<TARGET_CHAT_ID, 1, 5400>>, "ok")
        /\ TextOf(t) = "invite"

\* C5: a decline press makes no invite-link call and no approve call; after a
\* failed decline call the handler's only further call is the edit to the
\* generic decline error text.
C5_DeclineNeverLinks ==
    \A t \in Tasks :
        (IsPress(t) /\ Decoded(t) /\ tasks[t].parsed[1] = DECLINE)
        => /\ Made(t, "create_chat_invite_link") = {}
           /\ Made(t, "approve") = {}
           /\ Cardinality(Made(t, "decline")) <= 1
           /\ \A i \in Made(t, "decline") :
                  CallsOf(t)[i].res # "ok"
                  => /\ Len(CallsOf(t)) <= i + 1
                     /\ IF Len(CallsOf(t)) = i
                        THEN tasks[t].pc = "edit_decline_error"
                        ELSE /\ CallsOf(t)[i + 1].op = "edit_message_text"
                             /\ CallsOf(t)[i + 1].args[2] = "decline_error"
                             /\ Finished(t)

C5_Witness ==
    \E t \in Tasks :
        /\ IsPress(t) /\ Finished(t) /\ Decoded(t)
        /\ tasks[t].parsed[1] = DECLINE
        /\ Len(CallsOf(t)) = 3
        /\ CallsOf(t)[2] = Call("decline", <<TARGET_CHAT_ID, 7>>, "request not found")
        /\ CallsOf(t)[3].res = "ok"
        /\ TextOf(t) = "decline_error"

\* C6: when the prompt of a join request fails with Forbidden, the handler
\* calls approve(chat.id, user.id) exactly once, and no step of that handler
\* execution sends a prompt (no token for the pair reaches the gateway).
C6_UnreachableAutoApproves ==
    /\ [](\A t \in Tasks :
            (/\ tasks[t].kind = "join"
             /\ Len(CallsOf(t)) > 0
             /\ CallsOf(t)[1].res = "Forbidden")
            => /\ CallsOf(t)[1].op = "send_message"
               /\ IF Finished(t)
                  THEN /\ Len(CallsOf(t)) = 2
                       /\ CallsOf(t)[2].op = "approve"
                       /\ CallsOf(t)[2].args =
                              <<tasks[t].update.chat, tasks[t].update.user>>
                  ELSE Len(CallsOf(t)) = 1 /\ tasks[t].pc = "auto_approve")
    /\ [][\A t \in Tasks :
            (/\ tasks'[t].kind = "join"
             /\ Len(tasks'[t].calls) > Len(tasks[t].calls)
             /\ tasks'[t].calls[1].res = "Forbidden")
            => msgs' = msgs]_vars

C6_Witness ==
    \E t \in Tasks :
        /\ tasks[t].kind = "join" /\ Finished(t)
        /\ Len(CallsOf(t)) = 2
        /\ CallsOf(t)[1].res = "Forbidden"
        /\ CallsOf(t)[2] = Call("approve", <<TARGET_CHAT_ID, 12>>, "ok")
        /\ <<12, TARGET_CHAT_ID>> \in members
        /\ msgs = <<>>

\* C7: a /start update that has no sender, comes from a bot, has no chat or
\* comes from a chat that is not private makes no gateway call.
C7_IgnoredStartSilent ==
    \A t \in Tasks :
        (/\ tasks[t].kind = "start"
         /\ \/ ~tasks[t].update.has_user
            \/ tasks[t].update.is_bot
            \/ tasks[t].update.chat_type # "private")
        => Finished(t) /\ CallsOf(t) = <<>> /\ tasks[t].raised = "none"

C7_Witness ==
    \E t \in Tasks :
        /\ tasks[t].kind = "start" /\ Finished(t)
        /\ tasks[t].update.is_bot
        /\ tasks[t].update.chat_type = "private"
        /\ CallsOf(t) = <<>>
        /\ Len(msgs) = 1

\* C8: the first gateway call of every handle_button_press execution is the
\* callback acknowledgement, and nothing is called before or instead of it.
C8_AnswerFirst ==
    \A t \in Tasks :
        IsPress(t)
        => IF tasks[t].pc = "answer" THEN CallsOf(t) = <<>>
           ELSE Made(t, "answer") = {1}

C8_Witness ==
    \E t \in Tasks :
        /\ IsPress(t) /\ Finished(t)
        /\ Len(CallsOf(t)) = 4
        /\ CallsOf(t)[1].op = "answer"
        /\ CallsOf(t)[2].op = "approve"
        /\ CallsOf(t)[3].op = "create_chat_invite_link"
        /\ CallsOf(t)[4].op = "edit_message_text"

\* C9: an acknowledged press with a malformed payload ends without an
\* exception escaping the handler and without an approve, decline or
\* invite-link call.
C9_MalformedFailsClosed ==
    \A t \in Tasks :
        (IsPress(t) /\ Finished(t) /\ Acknowledged(t) /\ IsMalformed(tasks[t].data))
        => /\ tasks[t].raised = "none"
           /\ Made(t, "approve") = {}
           /\ Made(t, "decline") = {}
           /\ Made(t, "create_chat_invite_link") = {}

\* C10: the payload of each button of a prompt sent for (user_id, chat_id)
\* decodes, as handle_button_press decodes it, to the button's action, user_id
\* and chat_id, and encoding the decoded triple gives the payload back.
C10_TokenRoundTrip ==
    /\ \A m \in 1 .. Len(msgs) :
         \A i \in 1 .. Len(msgs[m].keyboard) :
            LET d == msgs[m].keyboard[i]
                v == DecodeToken(d)
            IN /\ ParseOutcome(d) = "ok"
               /\ v = <<IF i = 1 THEN APPROVE ELSE DECLINE, msgs[m].to, msgs[m].chat>>
               /\ EncodeToken(v[1], v[2], v[3]) = d
    /\ \A t \in Tasks :
         (IsPress(t) /\ Acknowledged(t))
         => \A i \in 1 .. Len(msgs[tasks[t].msg].keyboard) :
               tasks[t].data = msgs[tasks[t].msg].keyboard[i]
               => /\ Decoded(t)
                  /\ tasks[t].raised = "none"
                  /\ tasks[t].parsed =
                         <<IF i = 1 THEN APPROVE ELSE DECLINE,
                           msgs[tasks[t].msg].to, msgs[tasks[t].msg].chat>>
                  /\ EncodeToken(tasks[t].parsed[1], tasks[t].parsed[2],
                                 tasks[t].parsed[3]) = tasks[t].data

C10_Witness ==
    \E t \in Tasks :
        /\ IsPress(t) /\ Decoded(t)
        /\ tasks[t].data = msgs[tasks[t].msg].keyboard[2]
        /\ tasks[t].parsed = <<DECLINE, 11, -10>>

\* C11: no handler execution repeats a gateway call, and none ends with the
\* failure of a gateway call escaping it (the parse errors of line 92 are not
\* gateway failures).
C11_NoRetryNoEscape ==
    \A t \in Tasks :
        /\ \A i, j \in 1 .. Len(CallsOf(t)) :
              (i < j /\ CallsOf(t)[i].op = CallsOf(t)[j].op)
              => CallsOf(t)[i].args # CallsOf(t)[j].args
        /\ Finished(t) => tasks[t].raised \in {"none", "IndexError", "ValueError"}

\* C12 as stated: whenever an approve call of a press fails with the
\* no-pending wording, no join request has been filed for the decoded pair.
C12_LinkOnlyWithoutJoinRequest ==
    [][\A t \in Tasks :
          (/\ tasks'[t].kind = "press"
           /\ tasks[t].pc = "approve"
           /\ tasks'[t].pc = "create_link")
          => <<tasks[t].parsed[2], tasks[t].parsed[3]>> \notin filed]_vars

\* C12, amended: every invite-link call directly follows an approve call of
\* the same execution that failed with the no-pending wording, made when no
\* join request was pending for the decoded pair (one may have been filed
\* before and approved or declined since).
C12_LinkOnlyAfterNoPendingSignal ==
    \A t \in Tasks :
        \A i \in Made(t, "create_chat_invite_link") :
            /\ IsPress(t) /\ Decoded(t) /\ tasks[t].parsed[1] = APPROVE
            /\ i > 1
            /\ CallsOf(t)[i - 1].op = "approve"
            /\ CallsOf(t)[i - 1].args = <<tasks[t].parsed[3], tasks[t].parsed[2]>>
            /\ CallsOf(t)[i - 1].res \in {"user is already a member", "request not found"}
            /\ ~tasks[t].had_pending
            /\ CallsOf(t)[i].args[1] = tasks[t].parsed[3]

C12_Witness ==
    \E t \in Tasks :
        /\ IsPress(t) /\ Finished(t)
        /\ Made(t, "create_chat_invite_link") = {3}
        /\ CallsOf(t)[2].res = "user is already a member"
        /\ <<tasks[t].parsed[2], tasks[t].parsed[3]>> \in filed \cap members

\* C13 as stated: a handler execution makes at most 2 gateway calls.
C13_AtMostTwoCalls ==
    \A t \in Tasks : Len(CallsOf(t)) <= 2

\* C13, amended: start makes at most 1 gateway call, handle_join_request at
\* most 2 and handle_button_press at most 5.
C13_CallBounds ==
    \A t \in Tasks :
        /\ tasks[t].kind = "start" => Len(CallsOf(t)) <= 1
        /\ tasks[t].kind = "join" => Len(CallsOf(t)) <= 2
        /\ tasks[t].kind = "press" => Len(CallsOf(t)) <= 5

C13_Witness ==
    \E t \in Tasks :
        /\ IsPress(t) /\ Finished(t)
        /\ Len(CallsOf(t)) = 5
        /\ CallsOf(t)[4].args[2] = "invite"
        /\ CallsOf(t)[5].args[2] = "link_error"

\* C14: every edit of handle_button_press passes no reply_markup, and a
\* message that no longer shows the prompt has no buttons.
C14_EditsRemoveButtons ==
    /\ \A t \in Tasks :
         \A i \in Made(t, "edit_message_text") :
            /\ IsPress(t)
            /\ CallsOf(t)[i].args[3] = FALSE
            /\ CallsOf(t)[i].res = "ok"
               => msgs[CallsOf(t)[i].args[1]].keyboard = <<>>
    /\ \A m \in 1 .. Len(msgs) :
         msgs[m].text # "prompt" => msgs[m].keyboard = <<>>

C14_Witness ==
    \E t \in Tasks :
        /\ IsPress(t) /\ Finished(t)
        /\ Len(CallsOf(t)) = 3
        /\ CallsOf(t)[3] = Call("edit_message_text", <<1, "rejection", FALSE>>, "ok")
        /\ msgs[1].text = "rejection"
        /\ msgs[1].keyboard = <<>>

\* C15: after a successful approve call the execution makes no invite-link
\* call and edits the message to no text but the welcome text.
C15_ApprovedNeverErrors ==
    \A t \in Tasks :
        \A i \in Made(t, "approve") :
            (IsPress(t) /\ CallsOf(t)[i].res = "ok")
            => /\ Made(t, "create_chat_invite_link") = {}
               /\ \A j \in Made(t, "edit_message_text") :
                      CallsOf(t)[j].args[2] = "welcome"

Quiescent == queue = <<>> /\ \A t \in Tasks : tasks[t].pc \in {"idle", "done", "off"}
\* Every acknowledgement, invite-link and edit call of execution t succeeded.
CleanRun(t) ==
    \A i \in 1 .. Len(CallsOf(t)) :
        CallsOf(t)[i].op \in {"answer", "create_chat_invite_link", "edit_message_text"}
        => CallsOf(t)[i].res = "ok"

====
